---- MODULE Spec2Model ----
(***************************************************************************)
(* Model of the retrieval-augmented generation pipeline of Gist:           *)
(* chunking (src/ingest/chunker.py), indexing (src/ingest/embeddings.py,   *)
(* scripts/run_pipeline.py), context assembly (src/retrieval/retriever.py) *)
(* and the orchestrating callers (run_pipeline.main, repo_explainer).      *)
(*                                                                         *)
(* A Python str is modelled as a sequence of one-character strings, so     *)
(* that len(), slicing, strip() and split() are computed, not assumed.     *)
(***************************************************************************)
EXTENDS Integers, Sequences, FiniteSets, TLC

VARIABLES
    \* build_context: arguments, locals, return value, position
    results, max_chars, parts, total, context, ctxPc,
    \* chunk_by_char: arguments, locals, return value, position
    text, chunk_size_tokens, overlap_tokens, start, chunks, cbcOut, cbcPc,
    \* chunk_file: arguments, return value, position
    content, file_path, fileOut, filePc,
    \* vector store: the named collection of the persistent directory, the
    \* collection of the in-memory client of the running process, the lines of
    \* embeddings_backup.jsonl, and the indexer calls made so far
    collection, memColl, backup, history,
    \* orchestrating caller: which script, position, stage results, outcome
    flow, pipePc, pipeArgs, pipeChunks, fetched, chunks_count, emb_count,
    stagesRun, outcome, pipeRuns,
    \* query_collection / embed_query: arguments, the calls made to the store
    \* and to the embedding function, outcome, position
    query, qArgs, qTrace, qOut, qPc,
    \* generate_with_openai_compatible: locals of the retry loop, the responses
    \* received, the waits made, outcome, position
    attempts, backoff, responses, sleeps, genOut, genPc,
    \* allowed_context_chars: arguments and return value of the current call
    \* and of the call before it
    n_ctx, max_answer_tokens, prompt_overhead_tokens, budget, prevCall, budgetPc,
    \* _SBERT_MODEL_CACHE of the running process, the models loaded by it and
    \* the embed calls made in it
    modelCache, loadLog, embedLog,
    \* chunk_folder / ingest_repo: which function runs, the files of the walk or
    \* the filtered tree entries, whether the repository listing is obtained,
    \* position in the file list, lines written to the chunk file, count, position
    walkFn, entries, tree_ok, walkPos, out_f, count, walkPc

ctxVars == <<results, max_chars, parts, total, context, ctxPc>>
sizeVars == <<chunk_size_tokens, overlap_tokens>>
cbcVars == <<text, start, chunks, cbcOut, cbcPc>>
fileVars == <<content, file_path, fileOut, filePc>>
storeVars == <<collection, memColl, backup, history>>
pipeVars == <<flow, pipePc, pipeArgs, pipeChunks, fetched, chunks_count, emb_count,
              stagesRun, outcome, pipeRuns>>
retrVars == <<query, qArgs, qTrace, qOut, qPc>>
genVars == <<attempts, backoff, responses, sleeps, genOut, genPc>>
budgetVars == <<n_ctx, max_answer_tokens, prompt_overhead_tokens, budget, prevCall, budgetPc>>
cacheVars == <<modelCache, loadLog, embedLog>>
queryTimeVars == <<retrVars, genVars, budgetVars, cacheVars>>
walkVars == <<walkFn, entries, tree_ok, walkPos, out_f, count, walkPc>>
vars == <<ctxVars, sizeVars, cbcVars, fileVars, storeVars, pipeVars, queryTimeVars, walkVars>>

\* values of a component's variables while a specification does not use it
CtxIdle ==
    /\ results = <<>> /\ max_chars = 0 /\ parts = <<>> /\ total = 0
    /\ context = <<>> /\ ctxPc = "idle"

SizesIdle == chunk_size_tokens = 1000 /\ overlap_tokens = 200

CbcIdle == text = <<>> /\ start = 0 /\ chunks = <<>> /\ cbcOut = <<>> /\ cbcPc = "idle"

FileIdle == content = <<>> /\ file_path = <<>> /\ fileOut = <<>> /\ filePc = "idle"

\* a collection that does not exist
NoCollection == [exists |-> FALSE, items |-> <<>>]

StoreIdle ==
    /\ collection = NoCollection /\ memColl = NoCollection
    /\ backup = <<>> /\ history = <<>>

PipeIdle ==
    /\ flow = "none" /\ pipePc = "idle" /\ pipeArgs = <<>> /\ pipeChunks = <<>>
    /\ fetched = 0 /\ chunks_count = 0 /\ emb_count = 0
    /\ stagesRun = {} /\ outcome = "none" /\ pipeRuns = 0

\* the outcome of a retriever call that has not ended
NoOutcome == [status |-> "none", error |-> "none", results |-> <<>>]

RetrIdle ==
    /\ query = <<>> /\ qArgs = <<>> /\ qTrace = <<>> /\ qOut = NoOutcome /\ qPc = "idle"

GenIdle ==
    /\ attempts = 0 /\ backoff = 0 /\ responses = <<>> /\ sleeps = <<>>
    /\ genOut = "none" /\ genPc = "idle"

\* no call of allowed_context_chars before the current one
NoCall == [made |-> FALSE, max_answer_tokens |-> 0, budget |-> 0]

BudgetIdle ==
    /\ n_ctx = 0 /\ max_answer_tokens = 0 /\ prompt_overhead_tokens = 0
    /\ budget = 0 /\ prevCall = NoCall /\ budgetPc = "idle"

CacheIdle == modelCache = <<>> /\ loadLog = <<>> /\ embedLog = <<>>

QueryTimeIdle == RetrIdle /\ GenIdle /\ BudgetIdle /\ CacheIdle

WalkIdle ==
    /\ walkFn = "none" /\ entries = <<>> /\ tree_ok = FALSE /\ walkPos = 0
    /\ out_f = <<>> /\ count = 0 /\ walkPc = "idle"

\* Python None where an int is expected (chunk indexes are never negative)
None == -1

(***************************************************************************)
(* Python string primitives                                                *)
(***************************************************************************)
\* strip(" ") in place of strip(): only blanks count as whitespace
Whitespace_blankOnly == {" "}

\* characters removed by str.strip() / str.rstrip() and matched by \s
Whitespace == {" ", "\n", "\t", "\r"}

Max(a, b) == IF a >= b THEN a ELSE b
Min(a, b) == IF a <= b THEN a ELSE b

\* s[a:b] for 0 <= a, 0-based half-open, clipped to the string like Python
Slice(s, a, b) == SubSeq(s, a + 1, Min(b, Len(s)))

RECURSIVE lstrip(_)
lstrip(s) == IF s # <<>> /\ Head(s) \in Whitespace THEN lstrip(Tail(s)) ELSE s

RECURSIVE rstrip(_)
rstrip(s) ==
    IF s # <<>> /\ s[Len(s)] \in Whitespace THEN rstrip(SubSeq(s, 1, Len(s) - 1)) ELSE s

strip(s) == lstrip(rstrip(s))

\* sep.join(xs)
RECURSIVE join(_, _)
join(sep, xs) ==
    IF xs = <<>> THEN <<>>
    ELSE IF Len(xs) = 1 THEN xs[1]
    ELSE xs[1] \o sep \o join(sep, Tail(xs))

Digit == <<"0", "1", "2", "3", "4", "5", "6", "7", "8", "9">>

\* str(n) for a non-negative int, and for None
RECURSIVE str(_)
str(n) ==
    IF n = None THEN <<"N", "o", "n", "e">>
    ELSE IF n < 10 THEN <<Digit[n + 1]>>
    ELSE str(n \div 10) \o <<Digit[(n % 10) + 1]>>

(***************************************************************************)
(* Chunker: src/ingest/chunker.py                                          *)
(***************************************************************************)
TOKEN_TO_CHAR == 4

\* defaults of chunk_by_char's parameters
DefaultChunkSizeTokens == 1000
DefaultOverlapTokens == 200

\* s.split(sep) for a one-character separator
RECURSIVE split(_, _)
split(s, sep) ==
    IF \A k \in 1..Len(s) : s[k] # sep THEN <<s>>
    ELSE LET k == CHOOSE k \in 1..Len(s) : s[k] = sep /\ \A m \in 1..(k - 1) : s[m] # sep
         IN <<SubSeq(s, 1, k - 1)>> \o split(SubSeq(s, k + 1, Len(s)), sep)

\* text.replace("\r\n", "\n").replace("\r", "\n")
\* (from one "\r" to the next, left to right: "\r\n" and a lone "\r" both
\* become "\n")
RECURSIVE normalizeNewlines(_)
normalizeNewlines(s) ==
    IF \A k \in 1..Len(s) : s[k] # "\r" THEN s
    ELSE LET k == CHOOSE k \in 1..Len(s) : s[k] = "\r" /\ \A m \in 1..(k - 1) : s[m] # "\r"
             rest == IF k < Len(s) /\ s[k + 1] = "\n" THEN k + 2 ELSE k + 1
         IN SubSeq(s, 1, k - 1) \o <<"\n">> \o normalizeNewlines(SubSeq(s, rest, Len(s)))

\* the blank-run loop of normalize_text over lines[i..]
RECURSIVE collapseBlank(_, _, _)
collapseBlank(lines, i, blank_run) ==
    IF i > Len(lines) THEN <<>>
    ELSE LET run == IF strip(lines[i]) = <<>> THEN blank_run + 1 ELSE 0 IN
         IF run > 2 THEN collapseBlank(lines, i + 1, run)
         ELSE <<lines[i]>> \o collapseBlank(lines, i + 1, run)

normalize_text(txt) ==
    LET t == normalizeNewlines(txt)
        raw == split(t, "\n")
        lines == [k \in 1..Len(raw) |-> rstrip(raw[k])]
    IN strip(join(<<"\n">>, collapseBlank(lines, 1, 0)))

\* str.lower() on the letters that occur in the modelled paths
lowerChar(c) ==
    CASE c = "P" -> "p"
      [] c = "Y" -> "y"
      [] c = "M" -> "m"
      [] c = "D" -> "d"
      [] OTHER -> c

lower(s) == [k \in 1..Len(s) |-> lowerChar(s[k])]

\* os.path.splitext(path)[1]: from the last dot of the last path component,
\* unless that component has nothing but dots before it
splitext1(path) ==
    LET slashes == {k \in 1..Len(path) : path[k] = "/"}
        base == IF slashes = {} THEN 0 ELSE CHOOSE k \in slashes : \A m \in slashes : m <= k
        dots == {k \in (base + 1)..Len(path) : path[k] = "."}
    IN IF dots = {} THEN <<>>
       ELSE LET d == CHOOSE k \in dots : \A m \in dots : m <= k IN
            IF \A k \in (base + 1)..(d - 1) : path[k] = "." THEN <<>>
            ELSE SubSeq(path, d, Len(path))

detect_file_type(path) ==
    LET ext == lower(splitext1(path)) IN
    IF ext \in {<<".", "m", "d">>, <<".", "r", "s", "t">>} THEN "markdown"
    ELSE IF ext \in {<<".", "p", "y">>, <<".", "j", "s">>, <<".", "t", "s">>,
                     <<".", "j", "a", "v", "a">>, <<".", "g", "o">>, <<".", "r", "b">>}
        THEN "code"
    ELSE IF ext \in {<<".", "j", "s", "o", "n">>, <<".", "y", "a", "m", "l">>,
                     <<".", "y", "m", "l">>, <<".", "t", "o", "m", "l">>,
                     <<".", "i", "n", "i">>}
        THEN "config"
    ELSE IF ext = <<".", "i", "p", "y", "n", "b">> THEN "notebook"
    ELSE "text"

\* ---- chunk_by_char ----
\* chunk = text[start:end] with end = start + chunk_size
\* a window one character short: text[start:end-1]
Window_short(txt, from0, chunk_size) == Slice(txt, from0, from0 + chunk_size - 1)

\* chunk = text[start:end]
Window(txt, from0, chunk_size) == Slice(txt, from0, from0 + chunk_size)

\* the next start falls one token short: start = max(0, end - overlap - 4)
NextStart_short(end, overlap) == Max(0, end - overlap - TOKEN_TO_CHAR)

\* start = max(0, end - overlap)
NextStart(end, overlap) == Max(0, end - overlap)

\* [c.strip() for c in chunks]: the empty ones are kept
stripNonEmpty_keepAll(cs) == [k \in 1..Len(cs) |-> strip(cs[k])]

\* [c.strip() for c in chunks if c.strip()]
RECURSIVE stripNonEmpty(_)
stripNonEmpty(cs) ==
    IF cs = <<>> THEN <<>>
    ELSE IF strip(Head(cs)) = <<>> THEN stripNonEmpty(Tail(cs))
    ELSE <<strip(Head(cs))>> \o stripNonEmpty(Tail(cs))

\* the while loop never exits: the first window does not reach the end of
\* the text and the next start is not past the current one
LoopDiverges(txt, chunk_size, overlap) ==
    /\ chunk_size > 0
    /\ chunk_size < Len(txt)
    /\ NextStart(chunk_size, overlap) <= 0

\* the windows appended by the while loop from offset from0 on (a loop that exits)
RECURSIVE cbcWindows(_, _, _, _)
cbcWindows(txt, from0, chunk_size, overlap) ==
    IF ~(from0 < Len(txt)) THEN <<>>
    ELSE LET end == from0 + chunk_size IN
         IF end >= Len(txt) THEN <<Window(txt, from0, chunk_size)>>
         ELSE <<Window(txt, from0, chunk_size)>>
                  \o cbcWindows(txt, NextStart(end, overlap), chunk_size, overlap)

\* chunk_by_char(txt, chunk_size_tokens, overlap_tokens): "ok" with the
\* returned list, "raised" for the ValueError, "hangs" when the loop never exits
chunk_by_char(txt, cst, ot) ==
    LET chunk_size == cst * TOKEN_TO_CHAR
        overlap == ot * TOKEN_TO_CHAR
    IN IF txt = <<>> THEN [status |-> "ok", chunks |-> <<>>]
       ELSE IF chunk_size <= 0 THEN [status |-> "raised", chunks |-> <<>>]
       ELSE IF LoopDiverges(txt, chunk_size, overlap) THEN [status |-> "hangs", chunks |-> <<>>]
       ELSE [status |-> "ok",
             chunks |-> stripNonEmpty(cbcWindows(txt, 0, chunk_size, overlap))]

\* calls chunk_by_char on each txt of `texts` in turn and extends the list;
\* the first call that does not return ends the whole operation
RECURSIVE chunkEach(_, _, _)
chunkEach(texts, cst, ot) ==
    IF texts = <<>> THEN [status |-> "ok", chunks |-> <<>>]
    ELSE LET h == chunk_by_char(Head(texts), cst, ot) IN
         IF h.status # "ok" THEN h
         ELSE LET t == chunkEach(Tail(texts), cst, ot) IN
              IF t.status # "ok" THEN t
              ELSE [status |-> "ok", chunks |-> h.chunks \o t.chunks]

\* ---- split_code_by_defs ----
StartsWith(s, p) == Len(s) >= Len(p) /\ SubSeq(s, 1, Len(p)) = p

PythonStarters == {<<"d", "e", "f", " ">>, <<"c", "l", "a", "s", "s", " ">>}
JsStarters == {<<"f", "u", "n", "c", "t", "i", "o", "n", " ">>,
               <<"c", "l", "a", "s", "s", " ">>, <<"c", "o", "n", "s", "t", " ">>,
               <<"l", "e", "t", " ">>, <<"v", "a", "r", " ">>,
               <<"e", "x", "p", "o", "r", "t", " ">>}

\* starter_re.match(line): ^\s*(def |class ) or the JS-like alternatives
starter_match(line, lang) ==
    \E p \in (IF lang = "python" THEN PythonStarters ELSE JsStarters) :
        StartsWith(lstrip(line), p)

\* the loop with the starter line closing the block it is appended to
RECURSIVE defsLoop_starterEnds(_, _, _, _, _)
defsLoop_starterEnds(lines, i, blocks, current, lang) ==
    IF i > Len(lines) THEN (IF current # <<>> THEN Append(blocks, current) ELSE blocks)
    ELSE IF starter_match(lines[i], lang) /\ current # <<>>
         THEN defsLoop_starterEnds(lines, i + 1,
                                   Append(blocks, Append(current, lines[i])), <<>>, lang)
         ELSE defsLoop_starterEnds(lines, i + 1, blocks, Append(current, lines[i]), lang)

\* the for loop over lines[i..] with the blocks closed so far and `current`
RECURSIVE defsLoop(_, _, _, _, _)
defsLoop(lines, i, blocks, current, lang) ==
    IF i > Len(lines) THEN (IF current # <<>> THEN Append(blocks, current) ELSE blocks)
    ELSE IF starter_match(lines[i], lang) /\ current # <<>>
         THEN defsLoop(lines, i + 1, Append(blocks, current), <<lines[i]>>, lang)
         ELSE defsLoop(lines, i + 1, blocks, Append(current, lines[i]), lang)

\* ["\n".join(b).strip() for b in blocks if "\n".join(b).strip()]
RECURSIVE blockTexts(_)
blockTexts(blocks) ==
    IF blocks = <<>> THEN <<>>
    ELSE LET t == strip(join(<<"\n">>, Head(blocks))) IN
         IF t = <<>> THEN blockTexts(Tail(blocks)) ELSE <<t>> \o blockTexts(Tail(blocks))

split_code_by_defs(txt, lang) ==
    IF txt = <<>> THEN [status |-> "ok", chunks |-> <<>>]
    ELSE LET block_texts == blockTexts(defsLoop(split(txt, "\n"), 1, <<>>, <<>>, lang)) IN
         IF Len(block_texts) <= 1
         THEN chunk_by_char(txt, DefaultChunkSizeTokens, DefaultOverlapTokens)
         ELSE [status |-> "ok", chunks |-> block_texts]

\* ---- chunk_file ----
AtLineStart(s, p) == p = 1 \/ s[p - 1] = "\n"

\* number of consecutive characters of s from position p on that are in `set`
RECURSIVE runLen(_, _, _)
runLen(s, p, set) == IF p <= Len(s) /\ s[p] \in set THEN 1 + runLen(s, p + 1, set) ELSE 0

\* length of the match of (?m)^#{1,6}\s+ at position p, 0 when there is none
headingMatch(s, p) ==
    IF ~AtLineStart(s, p) THEN 0
    ELSE LET h == runLen(s, p, {"#"})
             w == runLen(s, p + h, Whitespace)
         IN IF h >= 1 /\ h <= 6 /\ w >= 1 THEN h + w ELSE 0

\* re.split(r"(?m)^#{1,6}\s+", txt): scan from p, the current piece began at `from`
RECURSIVE mdSplit(_, _, _)
mdSplit(s, p, from) ==
    IF p > Len(s) THEN <<SubSeq(s, from, Len(s))>>
    ELSE LET m == headingMatch(s, p) IN
         IF m > 0 THEN <<SubSeq(s, from, p - 1)>> \o mdSplit(s, p + m, p + m)
         ELSE mdSplit(s, p + 1, from)

\* enumerate(chunks), skipping chunks that strip to nothing, chunk_index = i
emit(chs, repo, path, file_type) ==
    LET all == [i \in 1..Len(chs) |->
                   [content |-> chs[i],
                    metadata |-> [repo |-> repo, file_path |-> path,
                                  file_type |-> file_type, chunk_index |-> i - 1]]]
    IN SelectSeq(all, LAMBDA c : strip(c.content) # <<>>)

chunk_file(cont, repo, path, cst, ot) ==
    LET txt == normalize_text(cont)
        file_type == detect_file_type(path)
        found ==
            IF file_type = "markdown" THEN
                chunkEach(SelectSeq(mdSplit(txt, 1, 1), LAMBDA part : strip(part) # <<>>),
                          cst, ot)
            ELSE IF file_type = "code" THEN
                LET ext == lower(splitext1(path))
                    lang == IF ext = <<".", "p", "y">> THEN "python" ELSE "js"
                    code_blocks == split_code_by_defs(txt, lang)
                IN IF code_blocks.status # "ok" THEN code_blocks
                   ELSE chunkEach(code_blocks.chunks, cst, ot)
            ELSE chunk_by_char(txt, cst, ot)
    IN [status |-> found.status,
        out |-> IF found.status = "ok" THEN emit(found.chunks, repo, path, file_type)
                ELSE <<>>]

\* ---- chunk_by_char as a running call ----
MaxTextLen == 9
MaxChunkTokens == 2
MaxOverlapTokens == 2
\* windows recorded in `chunks`; a loop that exits takes fewer (WindowsRecorded)
MaxWindows == 5

Texts == UNION {[1..n -> {"a", " "}] : n \in 0..MaxTextLen}

\* chunks.append(chunk); the model keeps the first MaxWindows entries
record(cs, chunk) == IF Len(cs) < MaxWindows THEN Append(cs, chunk) ELSE cs

\* lines 74-83: the early return, the ValueError, the loop set-up
CbcCall ==
    /\ cbcPc = "call"
    /\ IF text = <<>> THEN
            /\ cbcPc' = "returned"
            /\ cbcOut' = <<>>
            /\ UNCHANGED <<start, chunks>>
       ELSE IF chunk_size_tokens * TOKEN_TO_CHAR <= 0 THEN
            /\ cbcPc' = "raised"
            /\ UNCHANGED <<start, chunks, cbcOut>>
       ELSE /\ cbcPc' = "loop"
            /\ start' = 0
            /\ chunks' = <<>>
            /\ UNCHANGED cbcOut
    /\ UNCHANGED <<text, sizeVars, ctxVars, fileVars, storeVars, pipeVars, queryTimeVars, walkVars>>

\* lines 84-92: one test of the while condition and one iteration, or the return
CbcStep ==
    /\ cbcPc = "loop"
    /\ LET chunk_size == chunk_size_tokens * TOKEN_TO_CHAR
           overlap == overlap_tokens * TOKEN_TO_CHAR
           end == start + chunk_size
       IN IF ~(start < Len(text)) THEN
               /\ cbcPc' = "returned"
               /\ cbcOut' = stripNonEmpty(chunks)
               /\ UNCHANGED <<start, chunks>>
          ELSE /\ chunks' = record(chunks, Window(text, start, chunk_size))
               /\ IF end >= Len(text) THEN
                       /\ cbcPc' = "returned"
                       /\ cbcOut' = stripNonEmpty(chunks')
                       /\ UNCHANGED start
                  ELSE /\ start' = NextStart(end, overlap)
                       /\ UNCHANGED <<cbcPc, cbcOut>>
    /\ UNCHANGED <<text, sizeVars, ctxVars, fileVars, storeVars, pipeVars, queryTimeVars, walkVars>>

CbcInit ==
    /\ text \in Texts
    /\ chunk_size_tokens \in 0..MaxChunkTokens
    /\ overlap_tokens \in 0..MaxOverlapTokens
    /\ start = 0 /\ chunks = <<>> /\ cbcOut = <<>> /\ cbcPc = "call"
    /\ CtxIdle /\ FileIdle /\ StoreIdle /\ PipeIdle /\ QueryTimeIdle /\ WalkIdle

CbcNext == CbcCall \/ CbcStep

SpecCbc == CbcInit /\ [][CbcNext]_vars

\* a call that has started keeps executing
FairSpecCbc == SpecCbc /\ WF_vars(CbcNext)

\* the running call and the function chunk_by_char agree, and only a loop
\* that never exits fills the recorded window list
WindowsRecorded ==
    LET r == chunk_by_char(text, chunk_size_tokens, overlap_tokens) IN
    /\ cbcPc = "returned" => r.status = "ok" /\ r.chunks = cbcOut
    /\ cbcPc = "raised" => r.status = "raised"
    /\ cbcPc = "loop" /\ Len(chunks) >= MaxWindows => r.status = "hangs"
    /\ r.status = "hangs" => cbcPc \in {"call", "loop"}

\* ---- chunk_file as one call ----
MaxPieces == 3

Pieces == {<<"a">>, <<" ">>, <<"\n">>, <<"#">>, <<"d", "e", "f", " ">>, <<"\r">>}

RECURSIVE concat(_)
concat(ps) == IF ps = <<>> THEN <<>> ELSE Head(ps) \o concat(Tail(ps))

PieceContents == {concat(ps) : ps \in UNION {[1..n -> Pieces] : n \in 0..MaxPieces}}

\* "aaaa\n\n\n aaaa": the second window of 4 characters is blank
BlankWindowContent ==
    <<"a", "a", "a", "a", "\n", "\n", "\n", " ", "a", "a", "a", "a">>

\* "def f():\n    pass\n\ndef g():\n    pass\n"
TwoDefsContent ==
    <<"d", "e", "f", " ", "f", "(", ")", ":", "\n", " ", " ", " ", " ", "p", "a", "s", "s",
      "\n", "\n",
      "d", "e", "f", " ", "g", "(", ")", ":", "\n", " ", " ", " ", " ", "p", "a", "s", "s",
      "\n">>

Contents == PieceContents \cup {BlankWindowContent, TwoDefsContent}

Paths == {<<"a", ".", "m", "d">>, <<"a", ".", "P", "Y">>, <<"a", ".", "j", "s">>,
          <<"a", ".", "j", "s", "o", "n">>, <<"a", ".", "i", "p", "y", "n", "b">>, <<"a">>}

Repo == <<"r">>

\* the sizes callers pass in practice: the defaults of chunk_file, and a
\* window twice the default one
ScenarioSizes ==
    {<<DefaultChunkSizeTokens, DefaultOverlapTokens>>,
     <<2 * DefaultChunkSizeTokens, DefaultOverlapTokens>>}

\* one line of code, one character longer than the default window
LongCodeContent == [k \in 1..(DefaultChunkSizeTokens * TOKEN_TO_CHAR + 1) |-> "a"]

CodePaths == {p \in Paths : detect_file_type(p) = "code"}

FileInit ==
    /\ \/ /\ content \in Contents
          /\ file_path \in Paths
          /\ chunk_size_tokens \in 0..MaxChunkTokens
          /\ overlap_tokens \in 0..MaxOverlapTokens
       \/ /\ content = TwoDefsContent
          /\ file_path \in Paths
          /\ \E sz \in ScenarioSizes : chunk_size_tokens = sz[1] /\ overlap_tokens = sz[2]
       \/ /\ content = LongCodeContent
          /\ file_path \in CodePaths
          /\ \E sz \in ScenarioSizes : chunk_size_tokens = sz[1] /\ overlap_tokens = sz[2]
    /\ fileOut = <<>> /\ filePc = "call"
    /\ CtxIdle /\ CbcIdle /\ StoreIdle /\ PipeIdle /\ QueryTimeIdle /\ WalkIdle

\* one call of chunk_file that comes back, with a list or with the ValueError
ChunkFile ==
    /\ filePc = "call"
    /\ LET r == chunk_file(content, Repo, file_path, chunk_size_tokens, overlap_tokens) IN
        /\ r.status # "hangs"
        /\ filePc' = IF r.status = "ok" THEN "returned" ELSE "raised"
        /\ fileOut' = r.out
    /\ UNCHANGED <<content, file_path, sizeVars, ctxVars, cbcVars, storeVars, pipeVars, queryTimeVars, walkVars>>

FileNext == ChunkFile

SpecFile == FileInit /\ [][FileNext]_vars

\* ---- properties of chunk_by_char ----
ValidSizes ==
    /\ chunk_size_tokens > 0
    /\ overlap_tokens >= 0
    /\ overlap_tokens < chunk_size_tokens

\* the last window taken is text[start:], and the last returned chunk is the
\* trimmed text from some offset to the end
LastWindowAtEnd ==
    \/ text = <<>> /\ cbcOut = <<>>
    \/ /\ chunks # <<>>
       /\ start < Len(text)
       /\ start + chunk_size_tokens * 4 >= Len(text)
       /\ chunks[Len(chunks)] = SubSeq(text, start + 1, Len(text))
       /\ cbcOut # <<>> =>
             \E s \in 0..(Len(text) - 1) :
                 cbcOut[Len(cbcOut)] = strip(SubSeq(text, s + 1, Len(text)))
       /\ (\E k \in (start + 1)..Len(text) : text[k] \notin {" ", "\n", "\t", "\r"}) =>
             cbcOut # <<>> /\ cbcOut[Len(cbcOut)] = strip(SubSeq(text, start + 1, Len(text)))

\* C3: for chunk_size_tokens > 0 and 0 <= overlap_tokens < chunk_size_tokens
\* every call of chunk_by_char returns, and its last window reaches the end
\* of the text.
C3_TerminatesAtEnd ==
    (cbcPc = "call" /\ ValidSizes) ~> (cbcPc = "returned" /\ LastWindowAtEnd)

\* a returned call that took at least three windows with a positive overlap
C3_Witness ==
    /\ cbcPc = "returned"
    /\ ValidSizes
    /\ overlap_tokens > 0
    /\ Len(chunks) >= 2

\* C4: an overlap_tokens >= chunk_size_tokens > 0 is rejected or clamped, so
\* the call cannot loop forever: no pass of the window loop leaves the call
\* in the loop with a start that has not moved forward.
C4_OverlapRejectedOrClamped ==
    [][(cbcPc = "loop" /\ chunk_size_tokens > 0 /\ overlap_tokens >= chunk_size_tokens)
          => (cbcPc' \in {"returned", "raised"} \/ start' > start)]_vars

\* ---- properties of chunk_file ----
\* the raw windows of the normalized content (text-like files)
RawWindows ==
    cbcWindows(normalize_text(content), 0, chunk_size_tokens * 4, overlap_tokens * 4)

\* C5: no chunk emitted by chunk_file is empty or whitespace-only.
C5_NoBlankChunk ==
    filePc = "returned" =>
        \A i \in 1..Len(fileOut) :
            \E k \in 1..Len(fileOut[i].content) :
                fileOut[i].content[k] \notin {" ", "\n", "\t", "\r"}

\* a call on a plain-text file that emitted chunks although one of its
\* windows was blank
C5_Witness ==
    /\ filePc = "returned"
    /\ ValidSizes
    /\ detect_file_type(file_path) = "text"
    /\ fileOut # <<>>
    /\ \E w \in 1..Len(RawWindows) : \A k \in 1..Len(RawWindows[w]) :
           RawWindows[w][k] \in {" ", "\n", "\t", "\r"}

\* C6: the chunk_index values of one chunk_file call are 0, 1, ..., n-1 in
\* emission order, also when candidate chunks were dropped for being empty.
C6_ContiguousIndex ==
    filePc = "returned" =>
        \A i \in 1..Len(fileOut) : fileOut[i].metadata.chunk_index = i - 1

\* a call that emitted two chunks or more, fewer than the windows it took
C6_Witness ==
    /\ filePc = "returned"
    /\ ValidSizes
    /\ detect_file_type(file_path) \in {"text", "config", "notebook"}
    /\ Len(fileOut) >= 2
    /\ Len(RawWindows) > Len(fileOut)

\* C15: a call of chunk_by_char with a chunk_size_tokens that is zero or
\* negative ends with the ValueError, whatever the text, the empty text
\* included.
C15_NonPositiveSizeRejected ==
    (chunk_size_tokens <= 0 /\ cbcPc # "call") => cbcPc = "raised"

(***************************************************************************)
(* Indexer: embeddings.process_and_store and the dummy-embedding branch of *)
(* run_pipeline.store_embeddings, against the vector store                 *)
(***************************************************************************)
SbertPrefix == <<"s", "e", "n", "t", "e", "n", "c", "e", "-", "t", "r", "a", "n", "s", "f", "o", "r", "m", "e", "r", "s", "/">>

MiniLMShort == <<"a", "l", "l", "-", "M", "i", "n", "i", "L", "M", "-", "L", "6", "-", "v", "2">>

\* the default of the `model` parameter
DefaultModel == SbertPrefix \o MiniLMShort

\* sentence-transformers/all-MiniLM-L12-v2, another model of the same family
OtherModel == SbertPrefix \o <<"a", "l", "l", "-", "M", "i", "n", "i", "L", "M", "-", "L", "1", "2", "-", "v", "2">>

Models == {DefaultModel, OtherModel}

DefaultBatchSize == 64
BatchSizes == {1, DefaultBatchSize}

\* lines 130-131: a name that is not an sbert name is replaced by the default
effective_model(model) ==
    IF StartsWith(model, SbertPrefix) \/ model = MiniLMShort THEN model ELSE DefaultModel

\* number of components of the vectors of the MiniLM sentence-transformers models
ModelDim == 384

\* embed_texts_sbert(texts, model): one vector per text, in order; a vector is
\* modelled by its number of components and by what fixes its value, the
\* loaded model and the text
embed_texts_sbert(texts, model) ==
    [k \in 1..Len(texts) |-> [dim |-> ModelDim, model |-> model, of |-> texts[k]]]

\* emb = [0.0]*8, the same vector for every text
DummyDim == 8
DummyEmbedding == [dim |-> DummyDim, model |-> <<>>, of |-> <<>>]

\* rid = f"{repo}::{file_path}::{chunk_index}", with the .get() defaults
record_id(meta, default_index) ==
    (IF "repo" \in DOMAIN meta THEN meta.repo ELSE <<>>) \o <<":", ":">>
        \o (IF "file_path" \in DOMAIN meta THEN meta.file_path ELSE <<>>) \o <<":", ":">>
        \o str(IF "chunk_index" \in DOMAIN meta THEN meta.chunk_index ELSE default_index)

\* batchify without the final `if batch: yield batch`
RECURSIVE batchify_dropTail(_, _, _)
batchify_dropTail(items, batch, batch_size) ==
    IF items = <<>> THEN <<>>
    ELSE LET b == Append(batch, Head(items)) IN
         IF Len(b) >= batch_size THEN <<b>> \o batchify_dropTail(Tail(items), <<>>, batch_size)
         ELSE batchify_dropTail(Tail(items), b, batch_size)

\* batchify(iterable, batch_size): the remaining items after `batch` was begun
RECURSIVE batchify(_, _, _)
batchify(items, batch, batch_size) ==
    IF items = <<>> THEN (IF batch # <<>> THEN <<batch>> ELSE <<>>)
    ELSE LET b == Append(batch, Head(items)) IN
         IF Len(b) >= batch_size THEN <<b>> \o batchify(Tail(items), <<>>, batch_size)
         ELSE batchify(Tail(items), b, batch_size)

\* ---- the vector store (chromadb) as the indexer uses it ----
SameDimension(e1, e2) == e1.dim = e2.dim

\* Collection.add(ids, documents, metadatas, embeddings): raises when a vector
\* does not have the collection's dimensionality, or when an id occurs twice
\* in `ids`; an id that is already stored keeps its stored entry, the other
\* ids are inserted
chroma_add(coll, ids, docs, metas, embs) ==
    LET stored == {coll.items[id].embedding : id \in DOMAIN coll.items}
        new == {ids[k] : k \in 1..Len(ids)} \ DOMAIN coll.items
        at(id) == CHOOSE k \in 1..Len(ids) : ids[k] = id
    IN IF \/ \E e \in stored : \E k \in 1..Len(embs) : ~SameDimension(e, embs[k])
          \/ \E i, j \in 1..Len(ids) : i # j /\ ids[i] = ids[j]
       THEN [raised |-> TRUE, coll |-> coll]
       ELSE [raised |-> FALSE,
             coll |-> [coll EXCEPT !.items =
                 [id \in DOMAIN coll.items \cup new |->
                     IF id \in DOMAIN coll.items THEN coll.items[id]
                     ELSE [document |-> docs[at(id)], metadata |-> metas[at(id)],
                           embedding |-> embs[at(id)]]]]]

\* lines 94-105 (run_pipeline 88-98): PersistentClient succeeded: create the
\* collection, or get it when creating fails; PersistentClient failed: the
\* in-memory client of the process, whose create_collection raises when the
\* process has created the collection before
open_collection(persistent_ok, coll, mem) ==
    IF persistent_ok THEN [raised |-> FALSE, coll |-> [coll EXCEPT !.exists = TRUE], mem |-> mem]
    ELSE IF mem.exists THEN [raised |-> TRUE, coll |-> coll, mem |-> mem]
    ELSE [raised |-> FALSE, coll |-> coll, mem |-> [exists |-> TRUE, items |-> <<>>]]

\* one line of embeddings_backup.jsonl
backup_line(id, doc, meta, emb) ==
    [id |-> id, document |-> doc, metadata |-> meta, embedding |-> emb]

\* the loop with the embedding in a try/except that skips a failed batch
RECURSIVE batchLoop_skipFailed(_, _, _, _, _, _)
batchLoop_skipFailed(batches, j, model, fallback_backup, st, fail_at) ==
    IF j > Len(batches) THEN st
    ELSE IF j = fail_at
         THEN batchLoop_skipFailed(batches, j + 1, model, fallback_backup, st, fail_at)
    ELSE LET b == batches[j]
             batch_ids == [k \in 1..Len(b) |-> b[k].id]
             batch_docs == [k \in 1..Len(b) |-> b[k].doc]
             batch_metas == [k \in 1..Len(b) |-> b[k].meta]
             m == effective_model(model)
             embeddings == embed_texts_sbert(batch_docs, m)
             a == chroma_add(st.coll, batch_ids, batch_docs, batch_metas, embeddings)
         IN IF a.raised THEN [st EXCEPT !.status = "raised"]
            ELSE batchLoop_skipFailed(batches, j + 1, m, fallback_backup,
                                      [st EXCEPT !.coll = a.coll,
                                                 !.count = @ + Len(batch_docs)], fail_at)

\* lines 125-147: the batches from j on; st is [status, count, coll, mem, backup];
\* fail_at is the batch for which embed_texts_sbert raises (0: for none)
RECURSIVE batchLoop(_, _, _, _, _, _)
batchLoop(batches, j, model, fallback_backup, st, fail_at) ==
    IF j > Len(batches) THEN st
    ELSE IF j = fail_at THEN [st EXCEPT !.status = "raised"]
    ELSE LET b == batches[j]
             batch_ids == [k \in 1..Len(b) |-> b[k].id]
             batch_docs == [k \in 1..Len(b) |-> b[k].doc]
             batch_metas == [k \in 1..Len(b) |-> b[k].meta]
             m == effective_model(model)
             embeddings == embed_texts_sbert(batch_docs, m)
         IN IF ~fallback_backup THEN
                LET a == chroma_add(st.coll, batch_ids, batch_docs, batch_metas, embeddings) IN
                IF a.raised THEN [st EXCEPT !.status = "raised"]
                ELSE batchLoop(batches, j + 1, m, fallback_backup,
                               [st EXCEPT !.coll = a.coll, !.count = @ + Len(batch_docs)],
                               fail_at)
            ELSE batchLoop(batches, j + 1, m, fallback_backup,
                           [st EXCEPT !.backup = @ \o
                                [k \in 1..Len(b) |-> backup_line(batch_ids[k], batch_docs[k],
                                                                 batch_metas[k], embeddings[k])],
                                      !.count = @ + Len(batch_docs)],
                           fail_at)

\* process_and_store(jsonl_path, chroma_persist_directory, collection_name,
\* model, batch_size) in an environment where the embedder raises for batch
\* fail_at
process_and_store_run(recs, model, batch_size, persistent_ok, coll, mem, bak, fail_at) ==
    LET o == open_collection(persistent_ok, coll, mem)
        prepared == [k \in 1..Len(recs) |->
                        [id |-> record_id(recs[k].metadata, k - 1),
                         doc |-> recs[k].content, meta |-> recs[k].metadata]]
    IN IF o.raised
       THEN [status |-> "raised", count |-> 0, coll |-> coll, mem |-> mem, backup |-> bak]
       ELSE batchLoop(batchify(prepared, <<>>, batch_size), 1, model, ~persistent_ok,
                      [status |-> "ok", count |-> 0, coll |-> o.coll, mem |-> o.mem,
                       backup |-> bak], fail_at)

\* a call in which the embedder does not fail
process_and_store(recs, model, batch_size, persistent_ok, coll, mem, bak) ==
    process_and_store_run(recs, model, batch_size, persistent_ok, coll, mem, bak, 0)

\* run_pipeline lines 100-131: one record per line, each add in its own try
RECURSIVE dummyLoop(_, _, _, _)
dummyLoop(recs, k, fallback_backup, st) ==
    IF k > Len(recs) THEN st
    ELSE LET rid == record_id(recs[k].metadata, 0)
             doc == recs[k].content
             meta == recs[k].metadata
         IN IF ~fallback_backup THEN
                LET a == chroma_add(st.coll, <<rid>>, <<doc>>, <<meta>>, <<DummyEmbedding>>) IN
                IF a.raised THEN dummyLoop(recs, k + 1, fallback_backup, st)
                ELSE dummyLoop(recs, k + 1, fallback_backup,
                               [st EXCEPT !.coll = a.coll, !.count = @ + 1])
            ELSE dummyLoop(recs, k + 1, fallback_backup,
                           [st EXCEPT !.backup = Append(@, backup_line(rid, doc, meta,
                                                                     DummyEmbedding)),
                                      !.count = @ + 1])

\* run_pipeline.store_embeddings(chunks_jsonl, chroma_dir, collection, model,
\* batch_size, use_dummy)
store_embeddings(recs, model, batch_size, use_dummy, persistent_ok, coll, mem, bak) ==
    IF use_dummy THEN
        LET o == open_collection(persistent_ok, coll, mem) IN
        IF o.raised
        THEN [status |-> "raised", count |-> 0, coll |-> coll, mem |-> mem, backup |-> bak]
        ELSE dummyLoop(recs, 1, ~persistent_ok,
                       [status |-> "ok", count |-> 0, coll |-> o.coll, mem |-> o.mem,
                        backup |-> bak])
    ELSE process_and_store(recs, model, batch_size, persistent_ok, coll, mem, bak)

\* ---- the indexer as a sequence of calls ----
MaxRuns == 2

\* chunk records as chunk_file writes them
RecA == [content |-> <<"a">>,
         metadata |-> [repo |-> Repo, file_path |-> <<"a", ".", "p", "y">>,
                       file_type |-> "code", chunk_index |-> 0]]
RecB == [content |-> <<"b", "c">>,
         metadata |-> [repo |-> Repo, file_path |-> <<"a", ".", "p", "y">>,
                       file_type |-> "code", chunk_index |-> 1]]

\* the chunk files: lists of records with pairwise different ids
InputLists == {<<>>, <<RecA>>, <<RecB>>, <<RecA, RecB>>, <<RecB, RecA>>}

call_record(recs, model, batch_size, use_dummy, persistent_ok, r, bak) ==
    [input |-> recs, model |-> model, batch_size |-> batch_size, use_dummy |-> use_dummy,
     persistent_ok |-> persistent_ok, status |-> r.status, count |-> r.count,
     backup_before |-> Len(bak)]

StoreInit ==
    /\ collection = NoCollection
    /\ memColl = NoCollection
    /\ backup = <<>>
    /\ history = <<>>

\* one call of process_and_store (scripts/run_embeddings.py, store_embeddings)
ProcessAndStore ==
    /\ Len(history) < MaxRuns
    /\ \E recs \in InputLists, model \in Models, batch_size \in BatchSizes,
          persistent_ok \in BOOLEAN :
          LET r == process_and_store(recs, model, batch_size, persistent_ok,
                                     collection, memColl, backup) IN
          /\ collection' = r.coll
          /\ memColl' = r.mem
          /\ backup' = r.backup
          /\ history' = Append(history, call_record(recs, model, batch_size, FALSE,
                                                    persistent_ok, r, backup))
    /\ UNCHANGED <<ctxVars, sizeVars, cbcVars, fileVars, pipeVars, queryTimeVars, walkVars>>

\* one call of store_embeddings with use_dummy set
StoreDummy ==
    /\ Len(history) < MaxRuns
    /\ \E recs \in InputLists, persistent_ok \in BOOLEAN :
          LET r == store_embeddings(recs, DefaultModel, DefaultBatchSize, TRUE, persistent_ok,
                                    collection, memColl, backup) IN
          /\ collection' = r.coll
          /\ memColl' = r.mem
          /\ backup' = r.backup
          /\ history' = Append(history, call_record(recs, DefaultModel, DefaultBatchSize, TRUE,
                                                    persistent_ok, r, backup))
    /\ UNCHANGED <<ctxVars, sizeVars, cbcVars, fileVars, pipeVars, queryTimeVars, walkVars>>

\* the process ends and a new one starts: the in-memory client is gone
NewProcess ==
    /\ memColl.exists
    /\ memColl' = NoCollection
    /\ UNCHANGED <<collection, backup, history, ctxVars, sizeVars, cbcVars, fileVars, pipeVars, queryTimeVars, walkVars>>

IndexInit ==
    StoreInit /\ CtxIdle /\ SizesIdle /\ CbcIdle /\ FileIdle /\ PipeIdle
    /\ QueryTimeIdle /\ WalkIdle

IndexNext == ProcessAndStore \/ StoreDummy \/ NewProcess

SpecIndex == IndexInit /\ [][IndexNext]_vars

\* ---- properties of the indexer ----
LastCall == history[Len(history)]

\* the entry the call h writes for its k-th input record
WrittenEntry(h, k) ==
    [document |-> h.input[k].content,
     metadata |-> h.input[k].metadata,
     embedding |-> IF h.use_dummy THEN [dim |-> 8, model |-> <<>>, of |-> <<>>]
                   ELSE [dim |-> 384, model |-> h.model, of |-> h.input[k].content]]

InputId(h, k) ==
    h.input[k].metadata.repo \o <<":", ":">> \o h.input[k].metadata.file_path
        \o <<":", ":">> \o str(h.input[k].metadata.chunk_index)

\* C8: process_and_store run twice on the same records against the same
\* persistent collection succeeds both times, and each id then holds the
\* document, metadata and embedding written by the last run.
C8_ReindexOverwrites ==
    (/\ Len(history) >= 2
     /\ ~LastCall.use_dummy /\ ~history[Len(history) - 1].use_dummy
     /\ LastCall.persistent_ok /\ history[Len(history) - 1].persistent_ok
     /\ history[Len(history) - 1].status = "ok"
     /\ LastCall.input = history[Len(history) - 1].input)
    => /\ LastCall.status = "ok"
       /\ LastCall.count = Len(LastCall.input)
       /\ \A k \in 1..Len(LastCall.input) :
             /\ InputId(LastCall, k) \in DOMAIN collection.items
             /\ collection.items[InputId(LastCall, k)] = WrittenEntry(LastCall, k)

\* C9: when the persistent store cannot be opened, the call appends every
\* input record exactly once, in input order, to the backup log as
\* {id, document, metadata, embedding}, and reports the number of inputs.
C9_FallbackBackup ==
    (Len(history) >= 1 /\ ~LastCall.persistent_ok)
    => /\ LastCall.status = "ok"
       /\ LastCall.count = Len(LastCall.input)
       /\ SubSeq(backup, LastCall.backup_before + 1, Len(backup))
             = [k \in 1..Len(LastCall.input) |->
                   [id |-> InputId(LastCall, k),
                    document |-> WrittenEntry(LastCall, k).document,
                    metadata |-> WrittenEntry(LastCall, k).metadata,
                    embedding |-> WrittenEntry(LastCall, k).embedding]]

\* C16: in every indexer call, with real or dummy embeddings, on the
\* persistent path or on the in-memory fallback path, opening the collection
\* succeeds: it is created when absent and opened when present.
C16_OpenIsIdempotent ==
    [][(Len(history') = Len(history) + 1)
       => ~open_collection(history'[Len(history')].persistent_ok,
                           collection, memColl).raised]_vars

(***************************************************************************)
(* Orchestrating callers: run_pipeline.main and repo_explainer             *)
(* (_ingest_chunk_embed followed by the question loop of main)             *)
(***************************************************************************)
MaxFiles == 2

Flows == {"run_pipeline", "repo_explainer"}

\* the script is started in a new process
PipeStart ==
    /\ pipePc \in {"idle", "done"}
    /\ pipeRuns < MaxRuns
    /\ \E f \in Flows, use_dummy \in BOOLEAN :
          \* repo_explainer line 66 fixes use_dummy_embeddings = False
          /\ f = "repo_explainer" => ~use_dummy
          /\ flow' = f
          /\ pipeArgs' = [use_dummy |-> use_dummy]
    /\ pipePc' = "step1"
    /\ pipeChunks' = <<>>
    /\ fetched' = 0 /\ chunks_count' = 0 /\ emb_count' = 0
    /\ stagesRun' = {}
    /\ outcome' = "running"
    /\ pipeRuns' = pipeRuns + 1
    /\ memColl' = NoCollection
    /\ UNCHANGED <<collection, backup, history, ctxVars, sizeVars, cbcVars, fileVars, queryTimeVars, walkVars>>

\* Step 1: ingest_repo returns the number of files saved, or raises (the
\* caller's handling of either result; ingest_repo itself is IngestRepo below);
\* run_pipeline 177-185 (return 2, return 3), repo_explainer 72-75 (sys.exit(2))
PipeIngest ==
    /\ pipePc = "step1"
    /\ stagesRun' = stagesRun \cup {"ingest"}
    /\ \/ /\ outcome' = "failed"
          /\ pipePc' = "done"
          /\ UNCHANGED fetched
       \/ \E n \in 0..MaxFiles :
             /\ fetched' = n
             /\ IF n = 0 THEN outcome' = "aborted" /\ pipePc' = "done"
                ELSE pipePc' = "step2" /\ UNCHANGED outcome
    /\ UNCHANGED <<flow, pipeArgs, pipeChunks, chunks_count, emb_count, pipeRuns,
                   storeVars, ctxVars, sizeVars, cbcVars, fileVars, queryTimeVars, walkVars>>

\* Step 2: chunk_files writes the chunk file and returns the number of records;
\* run_pipeline 188-192 (return 4), repo_explainer 78-81 (sys.exit(3))
PipeChunk ==
    /\ pipePc = "step2"
    /\ stagesRun' = stagesRun \cup {"chunk"}
    /\ \E recs \in InputLists :
          /\ pipeChunks' = recs
          /\ chunks_count' = Len(recs)
          /\ IF Len(recs) = 0 THEN outcome' = "aborted" /\ pipePc' = "done"
             ELSE pipePc' = "step3" /\ UNCHANGED outcome
    /\ UNCHANGED <<flow, pipeArgs, fetched, emb_count, pipeRuns,
                   storeVars, ctxVars, sizeVars, cbcVars, fileVars, queryTimeVars, walkVars>>

\* Step 3: store_embeddings; run_pipeline 195-203 (return 5 on an exception,
\* else 'Pipeline complete!' and return 0), repo_explainer 84-87 (the return
\* value is dropped, an exception leaves main)
PipeStore ==
    /\ pipePc = "step3"
    /\ stagesRun' = stagesRun \cup {"embed"}
    /\ \E persistent_ok \in BOOLEAN :
          LET r == store_embeddings(pipeChunks, DefaultModel, DefaultBatchSize,
                                    pipeArgs.use_dummy, persistent_ok,
                                    collection, memColl, backup) IN
          /\ collection' = r.coll
          /\ memColl' = r.mem
          /\ backup' = r.backup
          /\ history' = Append(history, call_record(pipeChunks, DefaultModel, DefaultBatchSize,
                                                    pipeArgs.use_dummy, persistent_ok, r, backup))
          /\ IF r.status = "raised" THEN
                  /\ outcome' = "failed"
                  /\ pipePc' = "done"
                  /\ UNCHANGED emb_count
             ELSE /\ emb_count' = r.count
                  /\ IF flow = "run_pipeline" THEN outcome' = "success" /\ pipePc' = "done"
                     ELSE pipePc' = "qa" /\ UNCHANGED outcome
    /\ UNCHANGED <<flow, pipeArgs, pipeChunks, fetched, chunks_count, pipeRuns,
                   ctxVars, sizeVars, cbcVars, fileVars, queryTimeVars, walkVars>>

\* repo_explainer main 128-193: the example questions and the question loop
PipeAsk ==
    /\ pipePc = "qa"
    /\ stagesRun' = stagesRun \cup {"qa"}
    /\ outcome' = "success"
    /\ pipePc' = "done"
    /\ UNCHANGED <<flow, pipeArgs, pipeChunks, fetched, chunks_count, emb_count, pipeRuns,
                   storeVars, ctxVars, sizeVars, cbcVars, fileVars, queryTimeVars, walkVars>>

PipeInit ==
    PipeIdle /\ StoreInit /\ CtxIdle /\ SizesIdle /\ CbcIdle /\ FileIdle
    /\ QueryTimeIdle /\ WalkIdle

PipeNext == PipeStart \/ PipeIngest \/ PipeChunk \/ PipeStore \/ PipeAsk

SpecPipe == PipeInit /\ [][PipeNext]_vars

Separator == <<"\n", "\n", "-", "-", "-", "\n", "\n">>

\* accounting overhead added per block to the running total
JoinOverhead == 2

\* header = f"[CTX #{i}] {repo} :: {file_path} :: chunk {chunk_index}"
header(i, r) ==
    <<"[", "C", "T", "X", " ", "#">> \o str(i) \o <<"]", " ">>
        \o r.metadata.repo \o <<" ", ":", ":", " ">>
        \o r.metadata.file_path \o <<" ", ":", ":", " ", "c", "h", "u", "n", "k", " ">>
        \o str(r.metadata.chunk_index)

\* block = f"{header}\n{body}".strip()
block(i, r) == strip(header(i, r) \o <<"\n">> \o r.document)

\* the break test without the joining overhead
Overflows_noJoin(tot, blk, maxc) == tot + Len(blk) > maxc

\* the break test of the loop
Overflows(tot, blk, maxc) == tot + Len(blk) + JoinOverhead > maxc

\* ctxLoop with `continue` in place of `break`: a block that does not fit is
\* skipped and later blocks are still tried
RECURSIVE ctxLoop_continue(_, _, _, _, _)
ctxLoop_continue(rs, i, ps, tot, maxc) ==
    IF i > Len(rs) THEN [parts |-> ps, total |-> tot]
    ELSE LET blk == block(i, rs[i]) IN
         IF Overflows(tot, blk, maxc) THEN ctxLoop_continue(rs, i + 1, ps, tot, maxc)
         ELSE ctxLoop_continue(rs, i + 1, Append(ps, blk),
                               tot + Len(blk) + JoinOverhead, maxc)

\* the for loop of build_context from index i on: [parts, total] at loop exit
RECURSIVE ctxLoop(_, _, _, _, _)
ctxLoop(rs, i, ps, tot, maxc) ==
    IF i > Len(rs) THEN [parts |-> ps, total |-> tot]
    ELSE LET blk == block(i, rs[i]) IN
         IF Overflows(tot, blk, maxc) THEN [parts |-> ps, total |-> tot]
         ELSE ctxLoop(rs, i + 1, Append(ps, blk), tot + Len(blk) + JoinOverhead, maxc)

build_context(rs, maxc) == join(Separator, ctxLoop(rs, 1, <<>>, 0, maxc).parts)

\* ---- inputs of the context specification ----

MaxResults == 3
MaxCharsBound == 100

DocB == <<"a", "b", " ", "\n">>
DocC == <<"x", "\n", "y", "z", "w", "v">>
Docs == {<<>>, DocB, DocC}

Metas == {[repo |-> <<"r">>, file_path |-> <<"f">>, chunk_index |-> 0],
          [repo |-> <<>>, file_path |-> <<>>, chunk_index |-> None]}

ResultSet == {[document |-> d, metadata |-> m] : d \in Docs, m \in Metas}

ResultLists == UNION {[1..n -> ResultSet] : n \in 0..MaxResults}

\* a result rendering to exactly 500 characters (26 header, 1 newline, 473 body)
Result500 == [document |-> [k \in 1..473 |-> "a"],
              metadata |-> [repo |-> <<"r">>, file_path |-> <<"f">>, chunk_index |-> 0]]

CtxInit ==
    /\ \/ results \in ResultLists /\ max_chars \in 0..MaxCharsBound
       \/ results = <<Result500, Result500, Result500>> /\ max_chars \in {1005, 1200}
    /\ parts = <<>>
    /\ total = 0
    /\ context = <<>>
    /\ ctxPc = "call"
    /\ SizesIdle /\ CbcIdle /\ FileIdle /\ StoreIdle /\ PipeIdle /\ QueryTimeIdle /\ WalkIdle

\* one call of build_context(results, max_chars)
BuildContext ==
    /\ ctxPc = "call"
    /\ LET st == ctxLoop(results, 1, <<>>, 0, max_chars) IN
        /\ parts' = st.parts
        /\ total' = st.total
        /\ context' = build_context(results, max_chars)
    /\ ctxPc' = "returned"
    /\ UNCHANGED <<results, max_chars, sizeVars, cbcVars, fileVars, storeVars, pipeVars, queryTimeVars, walkVars>>

CtxNext == BuildContext

SpecCtx == CtxInit /\ [][CtxNext]_vars

\* ---- properties of build_context ----

\* C1: the string returned by build_context(results, max_chars) is never
\* longer than max_chars, separators included.
C1_ContextWithinBudget ==
    ctxPc = "returned" => Len(context) <= max_chars

\* sum of (rendered block length + 2) over results[1..j]
RECURSIVE Cost(_, _)
Cost(rs, j) == IF j = 0 THEN 0 ELSE Cost(rs, j - 1) + Len(block(j, rs[j])) + 2

Label(i) == <<"[", "C", "T", "X", " ", "#">> \o str(i) \o <<"]">>

\* C2: build_context includes exactly the longest prefix results[1..j] whose
\* running sum of (block length + 2) stays within max_chars; each included
\* block is whole and labelled [CTX #i], nothing after the first block that
\* does not fit is included, and 3 results of 500 characters with
\* max_chars = 1200 give exactly the first two blocks.
C2_LongestPrefix ==
    ctxPc = "returned" =>
        /\ \E j \in 0..Len(results) :
              /\ Cost(results, j) <= max_chars
              /\ j < Len(results) => Cost(results, j + 1) > max_chars
              /\ parts = [i \in 1..j |-> strip(header(i, results[i]) \o <<"\n">>
                                                 \o results[i].document)]
              /\ context = join(Separator, parts)
        /\ \A i \in 1..Len(parts) : SubSeq(parts[i], 1, Len(Label(i))) = Label(i)
        /\ (results = <<Result500, Result500, Result500>> /\ max_chars = 1200) =>
              /\ \A i \in 1..3 : Len(block(i, results[i])) = 500
              /\ Len(parts) = 2
              /\ Len(context) <= 1200

\* a call that stopped at a block that did not fit although the last result
\* would still have fitted in the remaining budget
C2_Witness ==
    /\ ctxPc = "returned"
    /\ Len(parts) >= 1
    /\ Len(parts) + 2 <= Len(results)
    /\ total + Len(block(Len(results), results[Len(results)])) + 2 <= max_chars

(***************************************************************************)
(* Retriever: embed_query and query_collection (src/retrieval/retriever.py) *)
(***************************************************************************)
\* `not query or not query.strip()`
is_empty_query(q) == q = <<>> \/ strip(q) = <<>>

\* embed_query(query, model), lines 16-19: the ValueError, else one call of
\* embed_texts_sbert on the stripped query; trace lists the calls made
embed_query(q, model) ==
    IF is_empty_query(q)
    THEN [raised |-> TRUE, error |-> "EmptyQuery", trace |-> <<>>, vec |-> DummyEmbedding]
    ELSE [raised |-> FALSE, error |-> "none", trace |-> <<"embed_texts_sbert">>,
          vec |-> embed_texts_sbert(<<strip(q)>>, model)[1]]

\* get_or_create_collection in place of get_collection
get_collection_or_create(coll) ==
    [raised |-> FALSE, coll |-> [coll EXCEPT !.exists = TRUE]]

\* client.get_collection(name): raises when the store has no such collection
get_collection(coll) == [raised |-> ~coll.exists, coll |-> coll]

\* `where`: an equality filter on metadata fields; an empty filter is no filter
matches(meta, where) ==
    \A f \in DOMAIN where : f \in DOMAIN meta /\ meta[f] = where[f]

\* coll.query(query_embeddings=[qvec], n_results=k, where=where): raises when
\* qvec has not the dimensionality of the stored vectors; else the store
\* answers with min(k, matching entries) ids, nearest first. Which entries are
\* nearest is decided by the store: the set of the answers it can give.
chroma_query(coll, qvec, k, where) ==
    LET cand == {id \in DOMAIN coll.items : matches(coll.items[id].metadata, where)}
        n == Min(k, Cardinality(cand))
    IN IF \E id \in DOMAIN coll.items : ~SameDimension(coll.items[id].embedding, qvec)
       THEN [raised |-> TRUE, answers |-> {}]
       ELSE [raised |-> FALSE,
             answers |-> {a \in [1..n -> cand] : \A i, j \in 1..n : i # j => a[i] # a[j]}]

\* lines 53-66: the rows of the response as result records; the distance of a
\* row is represented by its rank
result_rows(coll, answer) ==
    [i \in 1..Len(answer) |->
        [id |-> answer[i], document |-> coll.items[answer[i]].document,
         metadata |-> coll.items[answer[i]].metadata, distance |-> i - 1]]

\* query_collection(chroma_dir, collection_name, query, model, k, where),
\* lines 42-66, for each answer the store can give. store_ok: PersistentClient
\* can open chroma_dir. The outcome carries the calls made, in order, and the
\* collection as the call leaves it.
query_collection(store_ok, coll, q, model, k, where) ==
    LET failed(err, tr, c) ==
            {[status |-> "raised", error |-> err, results |-> <<>>, trace |-> tr, coll |-> c]}
        g == get_collection(coll)
        e == embed_query(q, model)
        r == chroma_query(g.coll, e.vec, k, where)
        t1 == <<"PersistentClient">>
        t2 == t1 \o <<"get_collection">>
        t3 == t2 \o <<"embed_query">> \o e.trace
        t4 == t3 \o <<"query">>
    IN IF ~store_ok THEN failed("StoreUnavailable", t1, coll)
       ELSE IF g.raised THEN failed("CollectionNotFound", t2, g.coll)
       ELSE IF e.raised THEN failed(e.error, t3, g.coll)
       ELSE IF r.raised THEN failed("InvalidDimension", t4, g.coll)
       ELSE {[status |-> "ok", error |-> "none", results |-> result_rows(g.coll, a),
              trace |-> t4, coll |-> g.coll] : a \in r.answers}

\* ---- the retriever as one call ----
MaxQueryLen == 3

QueryTexts == UNION {[1..n -> {"a", " ", "\n"}] : n \in 0..MaxQueryLen}

\* the collection as earlier indexer runs can have left it: never created,
\* or indexed with the model, or indexed with dummy embeddings
IndexedCollections ==
    {NoCollection}
        \cup {process_and_store(recs, DefaultModel, DefaultBatchSize, TRUE,
                                NoCollection, NoCollection, <<>>).coll : recs \in InputLists}
        \cup {store_embeddings(<<RecA>>, DefaultModel, DefaultBatchSize, TRUE, TRUE,
                               NoCollection, NoCollection, <<>>).coll}

\* values of n_results
TopKs == {1, 5}

\* values of `where`: none, and a filter on the file type
Wheres == {<<>>, [file_type |-> "markdown"], [file_type |-> "code"]}

QueryInit ==
    /\ query \in QueryTexts
    /\ collection \in IndexedCollections
    /\ memColl = NoCollection /\ backup = <<>> /\ history = <<>>
    /\ qArgs = <<>> /\ qTrace = <<>> /\ qOut = NoOutcome /\ qPc = "call"
    /\ CtxIdle /\ SizesIdle /\ CbcIdle /\ FileIdle /\ PipeIdle
    /\ GenIdle /\ BudgetIdle /\ CacheIdle /\ WalkIdle

\* one call of query_collection
QueryCollection ==
    /\ qPc = "call"
    /\ \E store_ok \in BOOLEAN, model \in Models, k \in TopKs, where \in Wheres :
          \E o \in query_collection(store_ok, collection, query, model, k, where) :
             /\ qArgs' = [fn |-> "query_collection", store_ok |-> store_ok, model |-> model,
                          k |-> k, where |-> where]
             /\ qTrace' = o.trace
             /\ qOut' = [status |-> o.status, error |-> o.error, results |-> o.results]
             /\ collection' = o.coll
    /\ qPc' = "done"
    /\ UNCHANGED <<query, memColl, backup, history, ctxVars, sizeVars, cbcVars, fileVars,
                   pipeVars, genVars, budgetVars, cacheVars, walkVars>>

\* one direct call of embed_query
EmbedQuery ==
    /\ qPc = "call"
    /\ \E model \in Models :
          LET e == embed_query(query, model) IN
          /\ qArgs' = [fn |-> "embed_query", store_ok |-> TRUE, model |-> model,
                       k |-> 0, where |-> <<>>]
          /\ qTrace' = <<"embed_query">> \o e.trace
          /\ qOut' = [status |-> IF e.raised THEN "raised" ELSE "ok", error |-> e.error,
                      results |-> <<>>]
    /\ qPc' = "done"
    /\ UNCHANGED <<query, storeVars, ctxVars, sizeVars, cbcVars, fileVars,
                   pipeVars, genVars, budgetVars, cacheVars, walkVars>>

QueryNext == QueryCollection \/ EmbedQuery

SpecQuery == QueryInit /\ [][QueryNext]_vars

\* ---- properties of the retriever ----
InTrace(name) == \E i \in 1..Len(qTrace) : qTrace[i] = name

\* C11: a call of the retriever with an empty or whitespace-only query ends
\* with the empty-query error, and embed_texts_sbert is not called in it.
C11_EmptyQueryRejected ==
    (qPc = "done" /\ is_empty_query(query))
    => /\ qOut.status = "raised"
       /\ qOut.error = "EmptyQuery"
       /\ ~InTrace("embed_texts_sbert")

\* C12: for an empty or whitespace-only query, query_collection ends with the
\* empty-query error whatever the state of the store, and neither opens the
\* store nor gets the collection before the query text is validated.
C12_EmptyQueryFailsFast ==
    (qPc = "done" /\ qArgs.fn = "query_collection" /\ is_empty_query(query))
    => /\ qOut.status = "raised"
       /\ qOut.error = "EmptyQuery"
       /\ ~InTrace("PersistentClient")
       /\ ~InTrace("get_collection")

\* C17: query_collection on a store that has no collection of that name ends
\* with an error (the collection is not found, or the store does not open),
\* returns no result list, and leaves the collection non-existent.
C17_MissingCollectionIsError ==
    [][(qPc = "call" /\ qPc' = "done" /\ qArgs'.fn = "query_collection"
          /\ ~collection.exists)
       => (/\ qOut'.status = "raised"
           /\ qOut'.error = IF qArgs'.store_ok THEN "CollectionNotFound"
                            ELSE "StoreUnavailable"
           /\ qOut'.results = <<>>
           /\ ~collection'.exists
           /\ collection' = collection)]_vars

\* a query on a missing collection has ended, with a non-empty query
C17_Witness ==
    /\ qPc = "done" /\ qArgs.fn = "query_collection" /\ qArgs.store_ok
    /\ ~collection.exists
    /\ ~is_empty_query(query)
    /\ qOut.error = "CollectionNotFound"

(***************************************************************************)
(* Generation backend call: the retry loop of                              *)
(* generate_with_openai_compatible (src/generation/llm.py)                 *)
(***************************************************************************)
\* what one requests.post(url, ..., timeout=120) can come back with: an HTTP
\* response with a status code, or an exception of the transport
HttpStatuses == {200, 400, 401, 404, 429, 500, 501, 502, 503, 504}

Outcomes ==
    {[kind |-> "response", status |-> st] : st \in HttpStatuses}
        \cup {[kind |-> "ConnectionError", status |-> 0], [kind |-> "Timeout", status |-> 0]}

\* line 59: the status codes the loop itself turns into a RuntimeError
RetryStatuses == {429, 500, 502, 503, 504}

\* resp.raise_for_status(): HTTPError for a 4xx or 5xx status
raise_for_status(st) == st >= 400 /\ st < 600

\* the try block of lines 57-62 ends in the except clause
attempt_raises(o) ==
    \/ o.kind # "response"
    \/ o.status \in RetryStatuses
    \/ raise_for_status(o.status)

\* line 64: the attempt cap
MaxAttempts == 3

\* `>` in place of `>=`: the loop gives up one attempt later
gives_up_late(n) == n > MaxAttempts

\* line 64: `if attempts >= 3`
gives_up(n) == n >= MaxAttempts

\* lines 53-54
GenCall ==
    /\ genPc = "call"
    /\ attempts' = 0
    /\ backoff' = 1
    /\ genPc' = "loop"
    /\ UNCHANGED <<responses, sleeps, genOut>>
    /\ UNCHANGED <<ctxVars, sizeVars, cbcVars, fileVars, storeVars, pipeVars,
                   retrVars, budgetVars, cacheVars, walkVars>>

\* lines 55-72: one iteration of `while True`: the request, then break, or
\* the raise of line 70, or the sleep and the doubled backoff
GenAttempt ==
    /\ genPc = "loop"
    /\ attempts' = attempts + 1
    /\ \E o \in Outcomes :
          /\ responses' = Append(responses, o)
          /\ IF ~attempt_raises(o) THEN
                  /\ genPc' = "parse"
                  /\ UNCHANGED <<backoff, sleeps, genOut>>
             ELSE IF gives_up(attempts') THEN
                  /\ genPc' = "done"
                  /\ genOut' = "RuntimeError"
                  /\ UNCHANGED <<backoff, sleeps>>
             ELSE /\ sleeps' = Append(sleeps, backoff)
                  /\ backoff' = backoff * 2
                  /\ UNCHANGED <<genPc, genOut>>
    /\ UNCHANGED <<ctxVars, sizeVars, cbcVars, fileVars, storeVars, pipeVars,
                   retrVars, budgetVars, cacheVars, walkVars>>

\* lines 73-81: resp.json() raises on a body that is not JSON; else the
\* answer text, or the serialized response, is returned
GenParse ==
    /\ genPc = "parse"
    /\ \E json_ok \in BOOLEAN :
          genOut' = IF json_ok THEN "returned" ELSE "JSONDecodeError"
    /\ genPc' = "done"
    /\ UNCHANGED <<attempts, backoff, responses, sleeps>>
    /\ UNCHANGED <<ctxVars, sizeVars, cbcVars, fileVars, storeVars, pipeVars,
                   retrVars, budgetVars, cacheVars, walkVars>>

GenInit ==
    /\ attempts = 0 /\ backoff = 0 /\ responses = <<>> /\ sleeps = <<>>
    /\ genOut = "none" /\ genPc = "call"
    /\ CtxIdle /\ SizesIdle /\ CbcIdle /\ FileIdle /\ StoreIdle /\ PipeIdle
    /\ RetrIdle /\ BudgetIdle /\ CacheIdle /\ WalkIdle

GenNext == GenCall \/ GenAttempt \/ GenParse

SpecGen == GenInit /\ [][GenNext]_vars

\* every request ends (timeout=120) and every sleep ends: a call that has
\* started keeps executing
FairSpecGen == SpecGen /\ WF_vars(GenNext)

\* ---- properties of the retry loop ----
Succeeded(o) == ~attempt_raises(o)

\* a 429 or 5xx response
Transient(o) == o.kind = "response" /\ (o.status = 429 \/ o.status \in 500..599)

\* C13: a call sends at most 3 requests and always ends: a successful
\* response is the last request of the call, a call that raises out of the
\* loop has made 3 failed attempts, and no request follows the end of the call.
C13_AtMostThreeRequests ==
    /\ [](/\ Len(responses) <= 3
          /\ \A i \in 1..Len(responses) : Succeeded(responses[i]) => i = Len(responses)
          /\ (genPc \in {"parse", "done"} /\ genOut # "RuntimeError")
                => Succeeded(responses[Len(responses)])
          /\ genOut = "RuntimeError"
                => /\ Len(responses) = 3
                   /\ \A i \in 1..3 : ~Succeeded(responses[i]))
    /\ [][(genPc \in {"parse", "done"}) => (responses' = responses)]_vars
    /\ (genPc = "call") ~> (genPc = "done")

\* three failed attempts, two waits, then the error reaches the caller
C13_Witness ==
    /\ genPc = "done" /\ genOut = "RuntimeError"
    /\ Len(responses) = 3 /\ sleeps = <<1, 2>>

\* C14: only a 429 or 5xx response is followed by a wait and another request;
\* any other failure is the last request of the call, which ends with the
\* error without waiting.
C14_OnlyTransientRetried ==
    \A i \in 1..Len(responses) :
        (attempt_raises(responses[i]) /\ ~Transient(responses[i]))
        => /\ i = Len(responses)
           /\ genPc = "done"
           /\ genOut = "RuntimeError"
           /\ Len(sleeps) = i - 1

(***************************************************************************)
(* Context budget: allowed_context_chars (src/generation/prompt.py)        *)
(***************************************************************************)
\* TOKEN_TO_CHAR of generation/prompt.py (the chunker has its own)
PROMPT_TOKEN_TO_CHAR == 4

\* the default of prompt_overhead_tokens
DefaultPromptOverheadTokens == 400

\* the answer budget added to the window in place of subtracted from it
ctx_tokens_for_context_added(n, a, o) == Max(256, n + a - o)

\* line 33
ctx_tokens_for_context(n, a, o) == Max(256, n - a - o)

\* the plain conversion, without either floor
allowed_context_chars_unfloored(n, a, o) == (n - a - o) * PROMPT_TOKEN_TO_CHAR

\* allowed_context_chars(n_ctx, max_answer_tokens, prompt_overhead_tokens);
\* Python ints do not overflow
allowed_context_chars(n, a, o) ==
    Max(1024, ctx_tokens_for_context(n, a, o) * PROMPT_TOKEN_TO_CHAR)

\* ---- allowed_context_chars as a sequence of calls ----
\* context windows: negative, tiny, around the 256-token floor, usual sizes
NCtxValues == {-4096, -1, 0, 1, 255, 656, 1056, 2048, 4096, 8192}

\* answer budgets, some larger than the windows
AnswerTokens == {-400, 0, 1, 256, 400, 401, 1400, 4096, 10000}

\* the callers pass no overhead (the default applies); others for the contract
Overheads == {DefaultPromptOverheadTokens, 0, -1, 1000}

BudgetInit ==
    /\ n_ctx \in NCtxValues
    /\ prompt_overhead_tokens \in Overheads
    /\ max_answer_tokens = 0 /\ budget = 0 /\ prevCall = NoCall /\ budgetPc = "idle"
    /\ CtxIdle /\ SizesIdle /\ CbcIdle /\ FileIdle /\ StoreIdle /\ PipeIdle
    /\ RetrIdle /\ GenIdle /\ CacheIdle /\ WalkIdle

\* one call with the window and the overhead of this run and some answer
\* budget; the call before it is remembered
AllowedContextChars ==
    /\ \E a \in AnswerTokens :
          /\ max_answer_tokens' = a
          /\ budget' = allowed_context_chars(n_ctx, a, prompt_overhead_tokens)
    /\ prevCall' = IF budgetPc = "returned"
                   THEN [made |-> TRUE, max_answer_tokens |-> max_answer_tokens,
                         budget |-> budget]
                   ELSE prevCall
    /\ budgetPc' = "returned"
    /\ UNCHANGED <<n_ctx, prompt_overhead_tokens>>
    /\ UNCHANGED <<ctxVars, sizeVars, cbcVars, fileVars, storeVars, pipeVars,
                   retrVars, genVars, cacheVars, walkVars>>

BudgetNext == AllowedContextChars

SpecBudget == BudgetInit /\ [][BudgetNext]_vars

\* ---- properties of allowed_context_chars ----
\* tokens left for the context before any floor
Remaining == n_ctx - max_answer_tokens - prompt_overhead_tokens

\* C18: the value returned is 4 * max(256, n_ctx - max_answer_tokens -
\* overhead), and it is never below 1024, for windows and answer budgets of
\* any sign and size.
C18_BudgetFormulaAndFloor ==
    budgetPc = "returned"
    => /\ budget = 4 * (IF Remaining >= 256 THEN Remaining ELSE 256)
       /\ budget >= 1024

\* the default overhead, an answer budget larger than the window: the floor
C18_Witness ==
    /\ budgetPc = "returned"
    /\ prompt_overhead_tokens = 400
    /\ max_answer_tokens > n_ctx
    /\ Remaining < 0
    /\ budget = 1024

\* C19: of two calls with the same window and overhead, the one with the
\* larger answer budget does not return the larger context budget.
C19_NonIncreasingInAnswer ==
    (budgetPc = "returned" /\ prevCall.made)
    => /\ prevCall.max_answer_tokens <= max_answer_tokens => prevCall.budget >= budget
       /\ prevCall.max_answer_tokens >= max_answer_tokens => prevCall.budget <= budget

\* two calls above the floor: more answer tokens, strictly less context
C19_Witness ==
    /\ budgetPc = "returned" /\ prevCall.made
    /\ prevCall.max_answer_tokens < max_answer_tokens
    /\ prevCall.budget > budget
    /\ budget > 1024

(***************************************************************************)
(* Embedding adapter: embed_texts_sbert with the process-wide              *)
(* _SBERT_MODEL_CACHE (src/ingest/embeddings.py)                           *)
(***************************************************************************)
\* a look-up that never finds the model
in_cache_never(cache, model) == FALSE

\* line 48: `model not in _SBERT_MODEL_CACHE`, negated
in_cache(cache, model) == model \in DOMAIN cache

\* line 49: _SBERT_MODEL_CACHE[model] = handle
cache_put(cache, model, handle) ==
    [m \in DOMAIN cache \cup {model} |-> IF m = model THEN handle ELSE cache[m]]

\* embed_texts_sbert(texts, model) on the cache, lines 41-56. deps_ok: the
\* imports succeed; load_ok: SentenceTransformer(model) succeeds; encode_ok:
\* st_model.encode succeeds; new_handle: the object a load would construct.
\* `loaded` tells whether SentenceTransformer(model) was called.
embed_with_cache(cache, texts, model, deps_ok, load_ok, encode_ok, new_handle) ==
    LET hit == in_cache(cache, model)
        cache1 == IF hit THEN cache ELSE cache_put(cache, model, new_handle)
        failed(err, c, ld) ==
            [status |-> err, cache |-> c, loaded |-> ld, handle |-> 0, vecs |-> <<>>]
    IN IF ~deps_ok THEN failed("DependencyMissing", cache, FALSE)
       ELSE IF ~hit /\ ~load_ok THEN failed("LoadError", cache, TRUE)
       ELSE IF ~encode_ok THEN
            [failed("EmbeddingError", cache1, ~hit) EXCEPT !.handle = cache1[model]]
       ELSE [status |-> "ok", cache |-> cache1, loaded |-> ~hit, handle |-> cache1[model],
             vecs |-> embed_texts_sbert(texts, model)]

\* ---- the adapter as a sequence of calls in one process ----
MaxEmbedCalls == 3

\* model ids as the callers pass them (process_and_store lets both spellings
\* of the default model through)
EmbedModels == Models \cup {MiniLMShort}

EmbedInputs == {<<RecA.content>>, <<RecA.content, RecB.content>>}

EmbedInit ==
    /\ modelCache = <<>> /\ loadLog = <<>> /\ embedLog = <<>>
    /\ CtxIdle /\ SizesIdle /\ CbcIdle /\ FileIdle /\ StoreIdle /\ PipeIdle
    /\ RetrIdle /\ GenIdle /\ BudgetIdle /\ WalkIdle

\* one call of embed_texts_sbert (from process_and_store or embed_query)
EmbedTexts ==
    /\ Len(embedLog) < MaxEmbedCalls
    /\ \E texts \in EmbedInputs, model \in EmbedModels,
          deps_ok \in BOOLEAN, load_ok \in BOOLEAN, encode_ok \in BOOLEAN :
          LET r == embed_with_cache(modelCache, texts, model, deps_ok, load_ok, encode_ok,
                                    Len(loadLog) + 1) IN
          /\ modelCache' = r.cache
          /\ loadLog' = IF r.loaded
                        THEN Append(loadLog, [model |-> model, ok |-> r.status # "LoadError"])
                        ELSE loadLog
          /\ embedLog' = Append(embedLog, [model |-> model, status |-> r.status,
                                           loaded |-> r.loaded, handle |-> r.handle,
                                           count |-> Len(r.vecs)])
    /\ UNCHANGED <<ctxVars, sizeVars, cbcVars, fileVars, storeVars, pipeVars,
                   retrVars, genVars, budgetVars, walkVars>>

EmbedNext == EmbedTexts

SpecEmbed == EmbedInit /\ [][EmbedNext]_vars

\* ---- properties of the adapter ----
SuccessfulLoads(m) == {i \in 1..Len(loadLog) : loadLog[i].model = m /\ loadLog[i].ok}

\* C20: in one process a model id is loaded successfully at most once; after
\* a successful embed call with an id, no later call with that id loads, and
\* each later call that reaches the model uses the same handle; an entry of
\* the cache is never removed or replaced.
C20_ModelLoadedOnce ==
    /\ [](/\ \A m \in EmbedModels : Cardinality(SuccessfulLoads(m)) <= 1
          /\ \A i, j \in 1..Len(embedLog) :
                (i < j /\ embedLog[i].model = embedLog[j].model /\ embedLog[i].status = "ok")
                => /\ ~embedLog[j].loaded
                   /\ embedLog[j].status # "DependencyMissing"
                         => embedLog[j].handle = embedLog[i].handle)
    /\ [][\A m \in DOMAIN modelCache :
             m \in DOMAIN modelCache' /\ modelCache'[m] = modelCache[m]]_vars

\* two successful calls with the same id after one load, and a third with another id
C20_Witness ==
    /\ Len(embedLog) = 3
    /\ embedLog[1].status = "ok" /\ embedLog[2].status = "ok" /\ embedLog[3].status = "ok"
    /\ embedLog[1].model = embedLog[2].model
    /\ embedLog[3].model # embedLog[1].model
    /\ embedLog[1].loaded /\ ~embedLog[2].loaded
    /\ Len(loadLog) = 2

(***************************************************************************)
(* Further properties of build_context                                     *)
(***************************************************************************)
\* C30: build_context returns the empty string exactly when results is empty
\* or the first rendered block, plus 2, exceeds max_chars; later results that
\* would fit do not change this.
C30_EmptyContextIffFirstOverflows ==
    ctxPc = "returned"
    => (context = <<>>
            <=> (results = <<>> \/ Len(block(1, results[1])) + 2 > max_chars))

\* the first block does not fit, the second would fit alone: empty context
C30_Witness ==
    /\ ctxPc = "returned"
    /\ Len(results) >= 2
    /\ Len(block(1, results[1])) + 2 > max_chars
    /\ Len(block(2, results[2])) + 2 <= max_chars
    /\ context = <<>>

(***************************************************************************)
(* Further properties of chunk_by_char                                     *)
(***************************************************************************)
\* distance between the starts of two consecutive windows
Stride == chunk_size_tokens * TOKEN_TO_CHAR - overlap_tokens * TOKEN_TO_CHAR

\* C29: with chunk_size > 0 and 0 <= overlap < chunk_size the i-th window
\* taken starts at offset (i-1) * (chunk_size - overlap), two consecutive
\* windows share exactly `overlap` characters, and at the return every
\* position of the text lies in a window.
C29_WindowsCoverText ==
    LET size == chunk_size_tokens * TOKEN_TO_CHAR
        overlap == overlap_tokens * TOKEN_TO_CHAR
    IN (ValidSizes /\ cbcPc \in {"loop", "returned"} /\ text # <<>>)
       => /\ cbcPc = "loop" => start = Len(chunks) * Stride
          /\ cbcPc = "returned" => start = (Len(chunks) - 1) * Stride
          /\ \A i \in 1..Len(chunks) :
                chunks[i] = SubSeq(text, (i - 1) * Stride + 1,
                                   Min((i - 1) * Stride + size, Len(text)))
          /\ \A i \in 1..(Len(chunks) - 1) :
                /\ Len(chunks[i]) = size
                /\ Len(chunks[i + 1]) > overlap
                /\ SubSeq(chunks[i], Stride + 1, size) = SubSeq(chunks[i + 1], 1, overlap)
          /\ cbcPc = "returned" =>
                \A p \in 1..Len(text) :
                    \E i \in 1..Len(chunks) :
                        (i - 1) * Stride < p /\ p <= (i - 1) * Stride + Len(chunks[i])

\* a returned call with overlapping windows whose last window is cut by the
\* end of the text
C29_Witness ==
    /\ cbcPc = "returned" /\ ValidSizes
    /\ overlap_tokens > 0
    /\ Len(chunks) >= 2
    /\ Len(chunks[Len(chunks)]) < chunk_size_tokens * TOKEN_TO_CHAR

(***************************************************************************)
(* Further properties of the indexer                                       *)
(***************************************************************************)
\* C25: after an indexer call in fallback mode that came back, the in-memory
\* collection holds the ids of the records the call appended to the backup
\* log: every record was added to both.
C25_FallbackFillsMemory ==
    (Len(history) >= 1 /\ ~LastCall.persistent_ok /\ LastCall.status = "ok")
    => /\ Len(backup) - LastCall.backup_before = Len(LastCall.input)
       /\ DOMAIN memColl.items
             = {backup[k].id : k \in (LastCall.backup_before + 1)..Len(backup)}

IdRepos == {<<"r">>, <<"a">>, <<"a", ":", ":", "b">>}
IdPaths == {<<"c">>, <<"b", ":", ":", "c">>, <<"a", ".", "p", "y">>}
IdIndexes == {0, 1}

\* chunk records as chunk_file writes them for these repos and paths
IdRecords ==
    {[content |-> p,
      metadata |-> [repo |-> r, file_path |-> p, file_type |-> detect_file_type(p),
                    chunk_index |-> i]] : r \in IdRepos, p \in IdPaths, i \in IdIndexes}

\* one call of process_and_store on a chunk file of one record
IndexRecord ==
    /\ Len(history) < MaxRuns
    /\ \E rec \in IdRecords :
          LET r == process_and_store(<<rec>>, DefaultModel, DefaultBatchSize, TRUE,
                                     collection, memColl, backup) IN
          /\ collection' = r.coll
          /\ memColl' = r.mem
          /\ backup' = r.backup
          /\ history' = Append(history, call_record(<<rec>>, DefaultModel, DefaultBatchSize,
                                                    FALSE, TRUE, r, backup))
    /\ UNCHANGED <<ctxVars, sizeVars, cbcVars, fileVars, pipeVars, queryTimeVars, walkVars>>

IdsNext == IndexRecord

SpecIds == IndexInit /\ [][IdsNext]_vars

\* C26: two chunk records that differ in repo, file_path or chunk_index get
\* different ids, so after both are indexed each id holds its own record.
C26_IdsUnique ==
    \A i, j \in 1..Len(history) :
        LET mi == history[i].input[1].metadata
            mj == history[j].input[1].metadata
        IN (mi.repo # mj.repo \/ mi.file_path # mj.file_path
                \/ mi.chunk_index # mj.chunk_index)
           => /\ record_id(mi, 0) # record_id(mj, 0)
              /\ collection.items[record_id(mi, 0)].metadata = mi
              /\ collection.items[record_id(mj, 0)].metadata = mj

(***************************************************************************)
(* Indexing and querying with one model id: process_and_store followed by  *)
(* query_collection on the same collection                                 *)
(***************************************************************************)
\* BAAI/bge-small-en: a model id that is no sentence-transformers/ name (its
\* vectors have 384 components as well)
UnrecognizedModel ==
    <<"B", "A", "A", "I", "/", "b", "g", "e", "-", "s", "m", "a", "l", "l", "-", "e", "n">>

\* values of --embed-model / `model`
ModelIds == Models \cup {MiniLMShort, UnrecognizedModel}

IndexQueryInit ==
    /\ query \in QueryTexts
    /\ StoreInit
    /\ qArgs = <<>> /\ qTrace = <<>> /\ qOut = NoOutcome /\ qPc = "call"
    /\ CtxIdle /\ SizesIdle /\ CbcIdle /\ FileIdle /\ PipeIdle
    /\ GenIdle /\ BudgetIdle /\ CacheIdle /\ WalkIdle

\* the chunk file is indexed with the model id the user chose
IndexWithModel ==
    /\ history = <<>>
    /\ \E recs \in {<<RecA>>, <<RecA, RecB>>}, model \in ModelIds, batch_size \in BatchSizes :
          LET r == process_and_store(recs, model, batch_size, TRUE,
                                     collection, memColl, backup) IN
          /\ collection' = r.coll
          /\ memColl' = r.mem
          /\ backup' = r.backup
          /\ history' = Append(history, call_record(recs, model, batch_size, FALSE, TRUE,
                                                    r, backup))
    /\ UNCHANGED <<ctxVars, sizeVars, cbcVars, fileVars, pipeVars, queryTimeVars, walkVars>>

\* the collection is queried with the model id it was indexed with
QueryWithModel ==
    /\ qPc = "call"
    /\ history # <<>>
    /\ \E k \in TopKs :
          \E o \in query_collection(TRUE, collection, query, LastCall.model, k, <<>>) :
             /\ qArgs' = [fn |-> "query_collection", store_ok |-> TRUE,
                          model |-> LastCall.model, k |-> k, where |-> <<>>]
             /\ qTrace' = o.trace
             /\ qOut' = [status |-> o.status, error |-> o.error, results |-> o.results]
             /\ collection' = o.coll
    /\ qPc' = "done"
    /\ UNCHANGED <<query, memColl, backup, history, ctxVars, sizeVars, cbcVars, fileVars,
                   pipeVars, genVars, budgetVars, cacheVars, walkVars>>

IndexQueryNext == IndexWithModel \/ QueryWithModel

SpecIndexQuery == IndexQueryInit /\ [][IndexQueryNext]_vars

\* C27: when a collection is indexed and then queried with the same model
\* id, the model that embedded a retrieved document is the model that
\* embedded the query.
C27_SameModelBothSides ==
    (qPc = "done" /\ qOut.status = "ok")
    => \A i \in 1..Len(qOut.results) :
          collection.items[qOut.results[i].id].embedding.model
              = embed_query(query, qArgs.model).vec.model

(***************************************************************************)
(* The indexer in an environment where embedding a batch can fail          *)
(***************************************************************************)
\* the batches for which the embedder can be made to fail
MaxFailAt == 2

\* one call of process_and_store; fail_at = 0: the embedder does not fail
ProcessAndStoreFailing ==
    /\ Len(history) < MaxRuns
    /\ \E recs \in InputLists, batch_size \in BatchSizes, persistent_ok \in BOOLEAN,
          fail_at \in 0..MaxFailAt :
          LET r == process_and_store_run(recs, DefaultModel, batch_size, persistent_ok,
                                         collection, memColl, backup, fail_at) IN
          /\ collection' = r.coll
          /\ memColl' = r.mem
          /\ backup' = r.backup
          /\ history' = Append(history,
                               call_record(recs, DefaultModel, batch_size, FALSE,
                                           persistent_ok, r, backup) @@ [fail_at |-> fail_at])
    /\ UNCHANGED <<ctxVars, sizeVars, cbcVars, fileVars, pipeVars, queryTimeVars, walkVars>>

\* a run with dummy embeddings, as StoreDummy, recorded with fail_at
StoreDummyBefore ==
    /\ Len(history) < MaxRuns
    /\ \E recs \in InputLists :
          LET r == store_embeddings(recs, DefaultModel, DefaultBatchSize, TRUE, TRUE,
                                    collection, memColl, backup) IN
          /\ collection' = r.coll
          /\ memColl' = r.mem
          /\ backup' = r.backup
          /\ history' = Append(history,
                               call_record(recs, DefaultModel, DefaultBatchSize, TRUE, TRUE,
                                           r, backup) @@ [fail_at |-> 0])
    /\ UNCHANGED <<ctxVars, sizeVars, cbcVars, fileVars, pipeVars, queryTimeVars, walkVars>>

IndexFailNext == ProcessAndStoreFailing \/ StoreDummyBefore

SpecIndexFail == IndexInit /\ [][IndexFailNext]_vars

\* ids of the records of the batches before batch j
IdsBefore(h, j) ==
    LET prepared == [k \in 1..Len(h.input) |-> InputId(h, k)]
        b == batchify(prepared, <<>>, h.batch_size)
    IN UNION {{b[i][k] : k \in 1..Len(b[i])} : i \in 1..(j - 1)}

FileLang == IF lower(splitext1(file_path)) = <<".", "p", "y">> THEN "python" ELSE "js"

FileLines == split(normalize_text(content), "\n")

\* the blocks of lines the heuristic finds in the file, and their texts
FileBlocks == defsLoop(FileLines, 1, <<>>, <<>>, FileLang)

FileBlockTexts == blockTexts(FileBlocks)

IsCodeFile == detect_file_type(file_path) = "code"

\* the contents of the chunks chunk_file returned
FileOutContents == [i \in 1..Len(fileOut) |-> fileOut[i].content]

\* C22: for a code file in which the heuristic finds at most one block,
\* chunk_file returns exactly the chunks of
\* chunk_by_char(text, chunk_size_tokens, overlap_tokens) on the whole
\* normalized text, for every text length and every valid size and overlap.
C22_CodeFallbackIsPlainChunking ==
    (filePc = "returned" /\ IsCodeFile /\ ValidSizes /\ Len(FileBlockTexts) <= 1) =>
        FileOutContents =
            chunk_by_char(normalize_text(content), chunk_size_tokens, overlap_tokens).chunks

\* C23: the blocks of split_code_by_defs are the lines of the text in their
\* order, each line in exactly one block; a block after the first begins with
\* a starter line and no other line of a block that has a line before it in
\* the block is a starter line. With two or more blocks that each fit the
\* window, chunk_file returns one chunk per block, chunk_index 0, 1, ...
C23_BlocksAtStarterLines ==
    IsCodeFile =>
        /\ concat(FileBlocks) = FileLines
        /\ \A b \in 1..Len(FileBlocks) :
            /\ FileBlocks[b] # <<>>
            /\ b > 1 => starter_match(FileBlocks[b][1], FileLang)
            /\ \A k \in 2..Len(FileBlocks[b]) : ~starter_match(FileBlocks[b][k], FileLang)
        /\ (/\ filePc = "returned"
            /\ ValidSizes
            /\ Len(FileBlockTexts) >= 2
            /\ \A b \in 1..Len(FileBlockTexts) :
                   Len(FileBlockTexts[b]) <= chunk_size_tokens * TOKEN_TO_CHAR)
           => /\ FileOutContents = FileBlockTexts
              /\ \A i \in 1..Len(fileOut) : fileOut[i].metadata.chunk_index = i - 1

\* the two top-level Python defs, chunked with the default sizes: 2 chunks,
\* chunk_index 0 and 1, the second beginning at the second def
C23_Witness ==
    /\ filePc = "returned"
    /\ IsCodeFile /\ FileLang = "python"
    /\ content = TwoDefsContent
    /\ chunk_size_tokens = DefaultChunkSizeTokens
    /\ Len(fileOut) = 2
    /\ fileOut[1].metadata.chunk_index = 0
    /\ fileOut[2].metadata.chunk_index = 1
    /\ StartsWith(fileOut[2].content, <<"d", "e", "f", " ", "g">>)

(***************************************************************************)
(* Folder walk and repository ingestion: chunker.chunk_folder,             *)
(* run_pipeline.ingest_repo                                                *)
(***************************************************************************)
MaxEntries == 2

WalkPaths == {<<"a", ".", "m", "d">>, <<"a", ".", "P", "Y">>}

WalkTexts == {<<>>, <<"a">>, <<"a", "a", "a", "a", "a", " ", "a", "a", "a">>}

\* a file os.walk yields (rel_path, whether open and read succeed, its text),
\* or an entry of the filtered tree (path, whether the fetch succeeds, its text)
WalkEntries == {[path |-> p, ok |-> o, content |-> c] :
                   p \in WalkPaths, o \in BOOLEAN, c \in WalkTexts}

EntryLists == UNION {[1..n -> WalkEntries] : n \in 0..MaxEntries}

\* the parameters filter_paths declares
FilterPathsParams == {"tree", "include_exts", "max_file_size"}

\* the keyword arguments ingest_repo passes to filter_paths
IngestRepoKeywords == {"include_exts", "max_file_size", "path_excludes"}

\* a call with a keyword argument the function does not declare raises TypeError
call_raises(keywords, params) == ~(keywords \subseteq params)

\* chunk_folder after count = 0 and the opening of the output file, or
\* ingest_repo at its first statement
WalkInit ==
    /\ \/ /\ walkFn = "chunk_folder"
          /\ tree_ok = FALSE
          /\ chunk_size_tokens \in 0..MaxChunkTokens
          /\ overlap_tokens \in 0..MaxOverlapTokens
          /\ walkPc = "loop"
       \/ /\ walkFn = "ingest_repo"
          /\ tree_ok \in BOOLEAN
          /\ SizesIdle
          /\ walkPc = "call"
    /\ entries \in EntryLists
    /\ walkPos = 1 /\ out_f = <<>> /\ count = 0
    /\ CtxIdle /\ CbcIdle /\ FileIdle /\ StoreIdle /\ PipeIdle /\ QueryTimeIdle

\* chunk_folder, one pass of `for fn in files` (lines 189-202): a file that
\* cannot be opened or read is skipped; an exception of chunk_file is not
\* caught and leaves chunk_folder; a call of chunk_file that hangs never ends
ChunkFolderFile ==
    /\ walkFn = "chunk_folder" /\ walkPc = "loop"
    /\ walkPos <= Len(entries)
    /\ LET e == entries[walkPos] IN
        IF ~e.ok THEN
            /\ walkPos' = walkPos + 1
            /\ UNCHANGED <<out_f, count, walkPc>>
        ELSE LET r == chunk_file(e.content, Repo, e.path, chunk_size_tokens, overlap_tokens) IN
            /\ r.status # "hangs"
            /\ IF r.status = "ok" THEN
                    /\ out_f' = out_f \o r.out
                    /\ count' = count + Len(r.out)
                    /\ walkPos' = walkPos + 1
                    /\ UNCHANGED walkPc
               ELSE /\ walkPc' = "raised"
                    /\ UNCHANGED <<out_f, count, walkPos>>
    /\ UNCHANGED <<walkFn, entries, tree_ok, sizeVars, ctxVars, cbcVars, fileVars, storeVars,
                   pipeVars, queryTimeVars>>

\* chunk_folder, line 203: return count
ChunkFolderReturn ==
    /\ walkFn = "chunk_folder" /\ walkPc = "loop"
    /\ walkPos > Len(entries)
    /\ walkPc' = "returned"
    /\ UNCHANGED <<walkFn, entries, tree_ok, walkPos, out_f, count, sizeVars, ctxVars, cbcVars,
                   fileVars, storeVars, pipeVars, queryTimeVars>>

\* ingest_repo, lines 29-39: parse_github_url, get_repo_info and get_repo_tree
\* return or raise; then the call of filter_paths with path_excludes, a
\* keyword filter_paths does not declare. The statements after line 39
\* (fetched = 0 and the loop over the filtered entries) follow that call.
IngestRepo ==
    /\ walkFn = "ingest_repo" /\ walkPc = "call"
    /\ walkPc' = IF ~tree_ok THEN "raised"
                 ELSE IF call_raises(IngestRepoKeywords, FilterPathsParams) THEN "raised"
                 ELSE "loop"
    /\ UNCHANGED <<walkFn, entries, tree_ok, walkPos, out_f, count, sizeVars, ctxVars, cbcVars,
                   fileVars, storeVars, pipeVars, queryTimeVars>>

WalkNext == ChunkFolderFile \/ ChunkFolderReturn \/ IngestRepo

SpecWalk == WalkInit /\ [][WalkNext]_vars

\* ---- properties of chunk_folder and ingest_repo ----
\* the chunk records chunk_folder writes for the files es, in their order
RECURSIVE WrittenFor(_)
WrittenFor(es) ==
    IF es = <<>> THEN <<>>
    ELSE (IF Head(es).ok
          THEN chunk_file(Head(es).content, Repo, Head(es).path,
                          chunk_size_tokens, overlap_tokens).out
          ELSE <<>>) \o WrittenFor(Tail(es))

\* the entries ingest_repo can save: a path and a fetch that succeeds
Fetchable == {i \in 1..Len(entries) : entries[i].path # <<>> /\ entries[i].ok}

\* chunk_folder: the lines written are those of the readable files passed so
\* far, count is their number, and the walk ends early only by an exception
\* of chunk_file on a file that was read
ChunkFolderSkipsUnreadable ==
    walkFn = "chunk_folder" =>
        /\ out_f = WrittenFor(SubSeq(entries, 1, walkPos - 1))
        /\ count = Len(out_f)
        /\ walkPc = "raised" => entries[walkPos].ok
        /\ walkPc = "returned" => walkPos = Len(entries) + 1

\* ingest_repo: with the repository tree listed, one entry whose fetch fails
\* and another that can be fetched, the call returns, and the count returned
\* is the number of entries fetched and saved
IngestRepoSkipsFailedFetch ==
    (/\ walkFn = "ingest_repo" /\ tree_ok /\ walkPc # "call"
     /\ Fetchable # {}
     /\ \E i \in 1..Len(entries) : ~entries[i].ok) =>
        /\ walkPc = "returned"
        /\ count = Cardinality(Fetchable)

\* C24: a failure on one file does not abort the run: chunk_folder skips a
\* file it cannot read and chunks and writes all other files, ingest_repo
\* skips a file whose fetch fails and fetches the others, and the count each
\* returns is the number of successes (chunk records written, files saved).
C24_FileFailureDoesNotAbort ==
    ChunkFolderSkipsUnreadable /\ IngestRepoSkipsFailedFetch

====
